---------------------------- MODULE Spec2Model ----------------------------
(***************************************************************************)
(* FAQ chatbot matching engine: RuleBasedChatbot (rule_based_engine.py),   *)
(* NLPChatbot and HybridChatbot (nlp_engine.py) over the corpus list owned *)
(* by DataLoader (data_loader.py), as wired by initialize_chatbot          *)
(* (chatbot_web.py).                                                       *)
(*                                                                         *)
(* Conventions.  A text is a sequence of one-character strings.  Python    *)
(* list positions 0..n-1 are the positions 1..n here.  A float score is    *)
(* the exact rational <<num, den>> in lowest terms with den > 0, so float  *)
(* rounding is not modelled.                                               *)
(***************************************************************************)
EXTENDS Integers, Sequences, FiniteSets, TLC

VARIABLES
    mode,                  \* chatbot_web.mode: "rule", "nlp" or "hybrid"
    faqs,                  \* the corpus list shared by loader and chatbots
    threshold,             \* RuleBasedChatbot/NLPChatbot.threshold
    weights,               \* <<rule_weight, nlp_weight>> of HybridChatbot, in tenths
    keyword_index,         \* RuleBasedChatbot.keyword_index
    faq_embeddings,        \* NLPChatbot.faq_embeddings
    embedding_cache,       \* the file NLPChatbot.cache_file
    conversation_history,  \* conversation_history of the front end's chatbot
    last_response,         \* what the most recent call returned
    adding,                \* <<question>> while a thread is inside
                           \* add_faq_dynamically, past its append; else <<>>
    requests,              \* the /api/chat requests: position and locals
    log_file,              \* the file ChatLogger.log_file
    logs_read              \* what the most recent get_logs returned

vars == <<mode, faqs, threshold, weights, keyword_index,
          faq_embeddings, embedding_cache, conversation_history,
          last_response, adding, requests, log_file, logs_read>>

\* the state of the web front end and of its logger
web == <<requests, log_file, logs_read>>

-----------------------------------------------------------------------------
(* Bounds of the model *)

MaxFaqs == 2

MaxHistory == 2

\* concurrent /api/chat requests
MaxRequests == 2

\* lines of the log file
MaxLogs == 2

-----------------------------------------------------------------------------
(* Exact rationals standing for Python floats *)

Abs(n) == IF n < 0 THEN -n ELSE n

RECURSIVE GCD(_, _)
GCD(a, b) == IF b = 0 THEN a ELSE GCD(b, a % b)

\* n/d in lowest terms with a positive denominator (d # 0)
Rat(n, d) ==
    LET g == GCD(Abs(n), Abs(d))
        s == IF d < 0 THEN -1 ELSE 1
    IN  <<(s * n) \div g, (s * d) \div g>>

Zero == Rat(0, 1)

One == Rat(1, 1)

RAdd(x, y) == Rat(x[1] * y[2] + y[1] * x[2], x[2] * y[2])

RMul(x, y) == Rat(x[1] * y[1], x[2] * y[2])

RLess(x, y) == x[1] * y[2] < y[1] * x[2]

RGreater(x, y) == RLess(y, x)

-----------------------------------------------------------------------------
(* Text normalisation: RuleBasedChatbot._preprocess_text, _extract_keywords *)

Range(s) == {s[i] : i \in DOMAIN s}

UpperToLower ==
    "R" :> "r" @@ "O" :> "o" @@ "H" :> "h" @@ "P" :> "p"

\* str.lower() on one character
Lower(c) == IF c \in DOMAIN UpperToLower THEN UpperToLower[c] ELSE c

\* the characters the regex class \w matches
WordChars ==
    {"a","b","c","d","e","f","g","h","i","j","k","l","m","n","o","p","q",
     "r","s","t","u","v","w","x","y","z","0","1","2","3","4","5","6","7",
     "8","9","_"} \cup DOMAIN UpperToLower

\* the characters the regex class \s matches
SpaceChars == {" "}

\* re.sub(r'[^\w\s\?]', ' ', text) on one character
KeepOrBlank(c) ==
    IF c \in WordChars \/ c \in SpaceChars \/ c = "?" THEN c ELSE " "

\* re.sub(r'\s+', ' ', text): every run of whitespace becomes one space
RECURSIVE CollapseSpaces(_)
CollapseSpaces(text) ==
    IF text = <<>> THEN <<>>
    ELSE IF Head(text) \in SpaceChars
         THEN IF Len(text) > 1 /\ text[2] \in SpaceChars
              THEN CollapseSpaces(Tail(text))
              ELSE <<" ">> \o CollapseSpaces(Tail(text))
         ELSE <<Head(text)>> \o CollapseSpaces(Tail(text))

\* str.strip(): leading and trailing whitespace removed
RECURSIVE Strip(_)
Strip(text) ==
    IF text = <<>> THEN <<>>
    ELSE IF Head(text) \in SpaceChars THEN Strip(Tail(text))
    ELSE IF text[Len(text)] \in SpaceChars
         THEN Strip(SubSeq(text, 1, Len(text) - 1))
    ELSE text

PreprocessText(text) ==
    LET lowered == [i \in 1..Len(text) |-> Lower(text[i])]
        cleaned == [i \in 1..Len(lowered) |-> KeepOrBlank(lowered[i])]
    IN  Strip(CollapseSpaces(cleaned))

\* str.split(): the maximal runs of non-whitespace characters, in order
RECURSIVE SplitFrom(_, _)
SplitFrom(text, word) ==
    IF text = <<>> THEN (IF word = <<>> THEN <<>> ELSE <<word>>)
    ELSE IF Head(text) \in SpaceChars
         THEN (IF word = <<>> THEN <<>> ELSE <<word>>)
              \o SplitFrom(Tail(text), <<>>)
         ELSE SplitFrom(Tail(text), Append(word, Head(text)))

Split(text) == SplitFrom(text, <<>>)

StopWords == {
    <<"a">>, <<"a","n">>, <<"a","n","d">>, <<"a","r","e">>, <<"a","s">>,
    <<"a","t">>, <<"b","e">>, <<"b","y">>, <<"f","o","r">>,
    <<"f","r","o","m">>, <<"h","a","s">>, <<"h","e">>, <<"i","n">>,
    <<"i","s">>, <<"i","t">>, <<"i","t","s">>, <<"o","f">>, <<"o","n">>,
    <<"t","h","a","t">>, <<"t","h","e">>, <<"t","o">>, <<"w","a","s">>,
    <<"w","i","l","l">>, <<"w","i","t","h">>, <<"i">>, <<"y","o","u">>,
    <<"c","a","n">>, <<"d","o">>, <<"h","o","w">>, <<"w","h","a","t">>,
    <<"w","h","e","n">>, <<"w","h","e","r","e">>, <<"w","h","i","c","h">>,
    <<"w","h","o">>, <<"w","h","y">>, <<"m","y">>, <<"m","e">> }

\* the shortest length a keyword must exceed
MinKeywordLen == 2

ExtractKeywords(text) ==
    {word \in Range(Split(PreprocessText(text))) :
        word \notin StopWords /\ Len(word) > MinKeywordLen}

-----------------------------------------------------------------------------
(* difflib.SequenceMatcher(None, a, b).ratio(), no junk, texts under 200   *)
(* characters (so the autojunk heuristic never applies)                     *)

\* length of the common run of a and b that starts at a[i], b[j]
RECURSIVE RunLen(_, _, _, _, _, _)
RunLen(a, b, i, j, ahi, bhi) ==
    IF i < ahi /\ j < bhi /\ a[i] = b[j]
    THEN 1 + RunLen(a, b, i + 1, j + 1, ahi, bhi)
    ELSE 0

\* find_longest_match over a[alo..ahi-1], b[blo..bhi-1]: <<i, j, size>> of
\* the longest block, the earliest in a and then the earliest in b
FindLongestMatch(a, b, alo, ahi, blo, bhi) ==
    LET starts == (alo..(ahi - 1)) \X (blo..(bhi - 1))
        size(p) == RunLen(a, b, p[1], p[2], ahi, bhi)
        matching == {p \in starts : size(p) > 0}
    IN  IF matching = {} THEN <<alo, blo, 0>>
        ELSE LET best == CHOOSE p \in matching :
                     \A o \in matching :
                         \/ size(p) > size(o)
                         \/ /\ size(p) = size(o)
                            /\ \/ p[1] < o[1]
                               \/ p[1] = o[1] /\ p[2] <= o[2]
             IN  <<best[1], best[2], size(best)>>

\* sum of the sizes of get_matching_blocks()
RECURSIVE MatchedChars(_, _, _, _, _, _)
MatchedChars(a, b, alo, ahi, blo, bhi) ==
    LET m == FindLongestMatch(a, b, alo, ahi, blo, bhi)
        i == m[1]
        j == m[2]
        k == m[3]
    IN  IF k = 0 THEN 0
        ELSE k
             + (IF alo < i /\ blo < j
                THEN MatchedChars(a, b, alo, i, blo, j) ELSE 0)
             + (IF i + k < ahi /\ j + k < bhi
                THEN MatchedChars(a, b, i + k, ahi, j + k, bhi) ELSE 0)

SequenceMatcherRatio(a, b) ==
    IF Len(a) + Len(b) = 0 THEN One
    ELSE Rat(2 * MatchedChars(a, b, 1, Len(a) + 1, 1, Len(b) + 1),
             Len(a) + Len(b))

CalculateSimilarity(text1, text2) ==
    SequenceMatcherRatio(PreprocessText(text1), PreprocessText(text2))

\* the share of the keywords of both texts that only the query has
KeywordMatchScoreUnmatched(query, faq_question) ==
    LET query_keywords == ExtractKeywords(query)
        faq_keywords == ExtractKeywords(faq_question)
        union == query_keywords \cup faq_keywords
    IN  IF query_keywords = {} THEN Zero
        ELSE Rat(Cardinality(query_keywords \ faq_keywords),
                 Cardinality(union))

KeywordMatchScore(query, faq_question) ==
    LET query_keywords == ExtractKeywords(query)
        faq_keywords == ExtractKeywords(faq_question)
        intersection == query_keywords \cap faq_keywords
        union == query_keywords \cup faq_keywords
    IN  IF query_keywords = {} THEN Zero
        ELSE IF union = {} THEN Zero
        ELSE Rat(Cardinality(intersection), Cardinality(union))

\* 0.6 * keyword_score + 0.4 * similarity_score
CombinedScore(query, faq_question) ==
    RAdd(RMul(Rat(6, 10), KeywordMatchScore(query, faq_question)),
         RMul(Rat(4, 10), CalculateSimilarity(query, faq_question)))

-----------------------------------------------------------------------------
(* The texts the model draws questions and queries from *)

TextResetPwdQ == <<"R","e","s","e","t"," ","p","w","d","?">>

TextResetPwd == <<"r","e","s","e","t"," ","p","w","d">>

TextOpenHours == <<"o","p","e","n"," ","h","o","u","r","s">>

TextResetHours == <<"r","e","s","e","t"," ","h","o","u","r","s">>

TextBangs == <<"!","!">>

TextSpace == <<" ">>

TextResetsPwdOpen ==
    <<"r","e","s","e","t","s"," ","p","w","d"," ","o","p","e","n">>

\* questions of corpus entries
QuestionTexts == {TextResetPwdQ, TextOpenHours}

\* queries of users
QueryTexts == {TextResetPwd, TextResetHours, TextBangs, TextSpace}

\* a query of three keywords, one of them a keyword of a question
LongQueryTexts == {TextResetsPwdOpen}

Texts == QuestionTexts \cup QueryTexts \cup LongQueryTexts

\* the scoring functions tabulated over the texts of the model
KeywordsOf == [t \in Texts |-> ExtractKeywords(t)]

LexicalScore == [q \in Texts |-> [f \in Texts |-> CombinedScore(q, f)]]

-----------------------------------------------------------------------------
(* The embedding provider: SentenceTransformer.encode, an external model.  *)
(* Vectors are integer pairs with integer norms, so cosines are rational.  *)

\* the vector the provider gives each text
Encoder ==
    (TextResetPwdQ :> <<3, 4>>) @@ (TextOpenHours :> <<4, 3>>) @@
    (TextResetPwd :> <<4, 3>>) @@ (TextResetHours :> <<-4, -3>>) @@
    (TextBangs :> <<0, 0>>) @@ (TextSpace :> <<0, 0>>)

\* self.model.encode([text])[0]
Encode(text) == Encoder[text]

Dot(vec1, vec2) == vec1[1] * vec2[1] + vec1[2] * vec2[2]

\* np.linalg.norm on a vector whose norm is an integer
Norm(vec) == CHOOSE n \in 0..(Abs(vec[1]) + Abs(vec[2])) : n * n = Dot(vec, vec)

CosineSimilarity(vec1, vec2) ==
    LET dot_product == Dot(vec1, vec2)
        norm1 == Norm(vec1)
        norm2 == Norm(vec2)
    IN  IF norm1 = 0 \/ norm2 = 0 THEN Zero
        ELSE Rat(dot_product, norm1 * norm2)

-----------------------------------------------------------------------------
(* The corpus and the keyword index *)

\* one FAQ dictionary; every entry has an answer text of its own, named by
\* the position the entry was appended at
Entry(question, position) == [question |-> question, answer |-> position]

Corpus(questions) == [i \in 1..Len(questions) |-> Entry(questions[i], i)]

\* the corpora a loader can hand to the constructors
Corpora ==
    UNION {{Corpus(qs) : qs \in [1..n -> QuestionTexts]} : n \in 0..MaxFaqs}

EmptyIndex == [k \in {} |-> <<>>]

\* the body of the loop of _build_keyword_index for entry i
RegisterEntry(index, keywords, i) ==
    [k \in (DOMAIN index) \cup keywords |->
        IF k \in keywords
        THEN Append(IF k \in DOMAIN index THEN index[k] ELSE <<>>, i)
        ELSE index[k]]

\* a build that leaves the last entry of the corpus out
BuildKeywordIndexSkipLast(corpus) ==
    LET RECURSIVE build(_, _)
        build(i, index) ==
            IF i >= Len(corpus) THEN index
            ELSE build(i + 1,
                       RegisterEntry(index, KeywordsOf[corpus[i].question], i))
    IN  build(1, EmptyIndex)

RECURSIVE BuildFrom(_, _, _)
BuildFrom(corpus, i, index) ==
    IF i > Len(corpus) THEN index
    ELSE BuildFrom(corpus, i + 1,
                   RegisterEntry(index, KeywordsOf[corpus[i].question], i))

BuildKeywordIndex(corpus) == BuildFrom(corpus, 1, EmptyIndex)

\* the slots of the hash table of a new Python set
SetMinSize == 8

\* the slots of the table once a fifth element has made it grow
SetGrownSize == 32

\* the slots of the table of a set of list positions
SetTableSize(s) ==
    IF Cardinality(s) * 5 < (SetMinSize - 1) * 3 THEN SetMinSize
    ELSE SetGrownSize

\* the slot a key takes in the table of a set: the first free slot of its
\* probe sequence, which starts at slot i (0 marks a free slot)
RECURSIVE SetProbe(_, _, _)
SetProbe(table, i, perturb) ==
    LET size == Cardinality(DOMAIN table)
        probes == IF i + 9 <= size - 1 THEN 9 ELSE 0
        free == {j \in i..(i + probes) : table[j] = 0}
    IN  IF free # {} THEN CHOOSE j \in free : \A k \in free : j <= k
        ELSE SetProbe(table, (i * 5 + 1 + (perturb \div 32)) % size,
                      perturb \div 32)

\* set.add of the list position `position`, whose hash is its 0-based index
SetAdd(table, position) ==
    LET hash == position - 1
        slot == SetProbe(table, hash % Cardinality(DOMAIN table), hash)
    IN  [table EXCEPT ![slot] = position]

\* list(s) of a Python set of list positions: the keys in the order of their
\* slots.  Below SetMinSize positions that is ascending order; keys whose
\* slots collide are added lower position first.
SetToList(s) ==
    LET size == SetTableSize(s)
        RECURSIVE fill(_, _)
        fill(table, rest) ==
            IF rest = {} THEN table
            ELSE LET least == CHOOSE x \in rest : \A y \in rest : x <= y
                 IN  fill(SetAdd(table, least), rest \ {least})
        table == fill([i \in 0..(size - 1) |-> 0], s)
        RECURSIVE list(_)
        list(i) ==
            IF i >= size THEN <<>>
            ELSE (IF table[i] = 0 THEN <<>> ELSE <<table[i]>>) \o list(i + 1)
    IN  list(0)

\* a lookup without the fallback to the whole corpus
GetCandidateFaqsNoFallback(query) ==
    SetToList(UNION {Range(keyword_index[k]) :
                         k \in KeywordsOf[query] \cap DOMAIN keyword_index})

\* a lookup that always scans the whole corpus
GetCandidateFaqsScanAll(query) == [i \in 1..Len(faqs) |-> i]

GetCandidateFaqs(query) ==
    LET query_keywords == KeywordsOf[query]
        candidates ==
            UNION {Range(keyword_index[k]) :
                       k \in query_keywords \cap DOMAIN keyword_index}
    IN  IF candidates # {} THEN SetToList(candidates)
        ELSE [i \in 1..Len(faqs) |-> i]

-----------------------------------------------------------------------------
(* Ranking *)

\* a (faq, score) tuple of a ranking
Match(faq, score) == [faq |-> faq, score |-> score]

\* list.sort(key=score, reverse=True) is stable: one more element goes
\* behind every element whose score is not smaller
RECURSIVE InsertMatch(_, _)
InsertMatch(sorted, m) ==
    IF sorted = <<>> THEN <<m>>
    ELSE IF RLess(Head(sorted).score, m.score) THEN <<m>> \o sorted
    ELSE <<Head(sorted)>> \o InsertMatch(Tail(sorted), m)

RECURSIVE SortMatches(_, _)
SortMatches(matches, sorted) ==
    IF matches = <<>> THEN sorted
    ELSE SortMatches(Tail(matches), InsertMatch(sorted, Head(matches)))

\* the last top_k matches instead of the first
TopKFromEnd(matches, top_k) ==
    SubSeq(matches,
           IF top_k < Len(matches) THEN Len(matches) - top_k + 1 ELSE 1,
           Len(matches))

\* matches[:top_k]
TopK(matches, top_k) ==
    SubSeq(matches, 1, IF top_k < Len(matches) THEN top_k ELSE Len(matches))

\* RuleBasedChatbot.find_best_match
RuleFindBestMatch(query, top_k) ==
    LET candidate_indices == GetCandidateFaqs(query)
        matches ==
            [n \in 1..Len(candidate_indices) |->
                LET faq == faqs[candidate_indices[n]]
                IN  Match(faq, LexicalScore[query][faq.question])]
    IN  TopK(SortMatches(matches, <<>>), top_k)

\* what a call that can raise gives back
Returned(value) == [raised |-> FALSE, value |-> value]

Raised == [raised |-> TRUE, value |-> <<>>]

\* a find_best_match that raises when it holds no embedding at all
NLPFindBestMatchNeedsEmbeddings(query, top_k, encode_ok) ==
    IF ~encode_ok \/ faq_embeddings = <<>> THEN Raised
    ELSE IF Len(faq_embeddings) > Len(faqs) THEN Raised
    ELSE LET query_embedding == Encode(query)
             similarities ==
                 [i \in 1..Len(faq_embeddings) |->
                     Match(faqs[i],
                           CosineSimilarity(query_embedding,
                                            faq_embeddings[i]))]
         IN  Returned(TopK(SortMatches(similarities, <<>>), top_k))

\* NLPChatbot.find_best_match; encode_ok says whether model.encode returns
NLPFindBestMatch(query, top_k, encode_ok) ==
    IF ~encode_ok THEN Raised
    ELSE IF Len(faq_embeddings) > Len(faqs) THEN Raised
    ELSE LET query_embedding == Encode(query)
             similarities ==
                 [i \in 1..Len(faq_embeddings) |->
                     Match(faqs[i],
                           CosineSimilarity(query_embedding,
                                            faq_embeddings[i]))]
         IN  Returned(TopK(SortMatches(similarities, <<>>), top_k))

-----------------------------------------------------------------------------
(* Replies.  kind is "clarify" (the empty-query prompt), "answer" (the     *)
(* entry's answer text), "fallback" (the not-sure text, listing the        *)
(* alternatives when there are any), "no_answer" (HybridChatbot found no   *)
(* candidate) or "raised" (the call ended in an exception); "constructed" *)
(* when the most recent call constructed the chatbot, "none" when it was   *)
(* another call that returns nothing.                                      *)

Reply(kind, query, answer, alternatives, confidence) ==
    [kind |-> kind, query |-> query, answer |-> answer,
     alternatives |-> alternatives, confidence |-> confidence]

NoReply == Reply("none", <<>>, 0, <<>>, <<>>)

NewChatbot == Reply("constructed", <<>>, 0, <<>>, <<>>)

\* f"{score:.2%}": the score in hundredths of a percent, rounded
FormatPercent(score) == (2 * 10000 * score[1] + score[2]) \div (2 * score[2])

\* the questions of matches[1:3]: the ranking without its first entry
SimilarQuestionsNextBest(matches) ==
    LET rest == TopK(Tail(matches), 2)
    IN  [i \in 1..Len(rest) |-> rest[i].faq.question]

\* the questions of matches[:2]
SimilarQuestions(matches) ==
    LET top == TopK(matches, 2)
    IN  [i \in 1..Len(top) |-> top[i].faq.question]

\* _get_fallback_response(similar_questions)
FallbackResponse(query, similar_questions) ==
    Reply("fallback", query, 0, similar_questions, <<>>)

\* what get_response gives back and what it appends to the history
Outcome(reply, records) == [reply |-> reply, records |-> records]

\* a get_response that answers with the best match whatever its score
RuleResponseNoThreshold(query, return_confidence) ==
    IF Strip(query) = <<>>
    THEN Outcome(Reply("clarify", query, 0, <<>>, <<>>), <<>>)
    ELSE
    LET matches == RuleFindBestMatch(query, 3)
    IN  IF matches = <<>>
        THEN Outcome(FallbackResponse(query, <<>>), <<>>)
        ELSE
        LET best_match == matches[1].faq
            score == matches[1].score
            record == [query |-> query, response |-> best_match.answer,
                       score |-> score]
        IN  Outcome(Reply("answer", query, best_match.answer, <<>>,
                          IF return_confidence
                          THEN <<FormatPercent(score)>> ELSE <<>>),
                    <<record>>)

\* RuleBasedChatbot.get_response
RuleResponse(query, return_confidence) ==
    IF Strip(query) = <<>>
    THEN Outcome(Reply("clarify", query, 0, <<>>, <<>>), <<>>)
    ELSE
    LET matches == RuleFindBestMatch(query, 3)
    IN  IF matches = <<>>
        THEN Outcome(FallbackResponse(query, <<>>), <<>>)
        ELSE
        LET best_match == matches[1].faq
            score == matches[1].score
            record == [query |-> query, response |-> best_match.answer,
                       score |-> score]
        IN  IF RLess(score, threshold)
            THEN Outcome(FallbackResponse(query, SimilarQuestions(matches)),
                         <<record>>)
            ELSE Outcome(Reply("answer", query, best_match.answer, <<>>,
                               IF return_confidence
                               THEN <<FormatPercent(score)>> ELSE <<>>),
                         <<record>>)

\* NLPChatbot.get_response
NLPResponse(query, return_confidence, encode_ok) ==
    IF Strip(query) = <<>>
    THEN Outcome(Reply("clarify", query, 0, <<>>, <<>>), <<>>)
    ELSE
    LET found == NLPFindBestMatch(query, 3, encode_ok)
        matches == found.value
    IN  IF found.raised
        THEN Outcome(Reply("raised", query, 0, <<>>, <<>>), <<>>)
        ELSE IF matches = <<>>
        THEN Outcome(FallbackResponse(query, <<>>), <<>>)
        ELSE
        LET best_match == matches[1].faq
            score == matches[1].score
            record == [query |-> query, response |-> best_match.answer,
                       score |-> score, method |-> "semantic"]
        IN  IF RLess(score, threshold)
            THEN Outcome(FallbackResponse(query, SimilarQuestions(matches)),
                         <<record>>)
            ELSE Outcome(Reply("answer", query, best_match.answer, <<>>,
                               IF return_confidence
                               THEN <<FormatPercent(score)>> ELSE <<>>),
                         <<record>>)

\* an arbitration that picks the method with the lower weighted score
HybridPickLowerWeighted(rule_matches, nlp_matches) ==
    LET rule_score == IF rule_matches # <<>> THEN rule_matches[1].score
                      ELSE Zero
        nlp_score == IF nlp_matches # <<>> THEN nlp_matches[1].score
                     ELSE Zero
        rule_weighted == RMul(rule_score, Rat(weights[1], 10))
        nlp_weighted == RMul(nlp_score, Rat(weights[2], 10))
    IN  IF RLess(rule_weighted, nlp_weighted) /\ rule_matches # <<>>
        THEN "rule-based"
        ELSE IF nlp_matches # <<>> THEN "semantic"
        ELSE "none"

\* an arbitration that gives a tie to the rule-based method
HybridPickTieToRule(rule_matches, nlp_matches) ==
    LET rule_score == IF rule_matches # <<>> THEN rule_matches[1].score
                      ELSE Zero
        nlp_score == IF nlp_matches # <<>> THEN nlp_matches[1].score
                     ELSE Zero
        rule_weighted == RMul(rule_score, Rat(weights[1], 10))
        nlp_weighted == RMul(nlp_score, Rat(weights[2], 10))
    IN  IF ~RLess(rule_weighted, nlp_weighted) /\ rule_matches # <<>>
        THEN "rule-based"
        ELSE IF nlp_matches # <<>> THEN "semantic"
        ELSE "none"

\* the arbitration of HybridChatbot.get_response: the method it picks from
\* the two top-1 lists, "none" when it picks neither
HybridPick(rule_matches, nlp_matches) ==
    LET rule_score == IF rule_matches # <<>> THEN rule_matches[1].score
                      ELSE Zero
        nlp_score == IF nlp_matches # <<>> THEN nlp_matches[1].score
                     ELSE Zero
        rule_weighted == RMul(rule_score, Rat(weights[1], 10))
        nlp_weighted == RMul(nlp_score, Rat(weights[2], 10))
    IN  IF RGreater(rule_weighted, nlp_weighted) /\ rule_matches # <<>>
        THEN "rule-based"
        ELSE IF nlp_matches # <<>> THEN "semantic"
        ELSE "none"

\* HybridChatbot.get_response
HybridResponse(query, return_confidence, encode_ok) ==
    LET rule_matches == RuleFindBestMatch(query, 1)
        found == NLPFindBestMatch(query, 1, encode_ok)
        nlp_matches == found.value
    IN  IF found.raised
        THEN Outcome(Reply("raised", query, 0, <<>>, <<>>), <<>>)
        ELSE
        LET method == HybridPick(rule_matches, nlp_matches)
        IN  IF method = "none"
            THEN Outcome(Reply("no_answer", query, 0, <<>>, <<>>), <<>>)
            ELSE
            LET chosen == IF method = "rule-based" THEN rule_matches[1]
                          ELSE nlp_matches[1]
                best_match == chosen.faq
                final_score == chosen.score
                record == [query |-> query, response |-> best_match.answer,
                           score |-> final_score, method |-> method]
            IN  Outcome(Reply("answer", query, best_match.answer, <<>>,
                              IF return_confidence
                              THEN <<FormatPercent(final_score), method>>
                              ELSE <<>>),
                        <<record>>)

-----------------------------------------------------------------------------
(* Construction *)

Modes == {"rule", "nlp", "hybrid"}

\* the confidence threshold a front end passes on (--threshold): 3/7, which
\* is also the score of "reset hours" against "Reset pwd?", so that a best
\* score equal to the threshold occurs
Thresholds == {Rat(3, 7)}

\* the defaults rule_weight = 0.3, nlp_weight = 0.7, in tenths
DefaultWeights == <<3, 7>>

\* the <<rule_weight, nlp_weight>> a HybridChatbot is constructed with:
\* every caller leaves them at the defaults
WeightPairs == {DefaultWeights}

NoFile == [exists |-> FALSE, data |-> <<>>]

File(data) == [exists |-> TRUE, data |-> data]

\* _generate_embeddings: model.encode over the questions of the corpus
GenerateEmbeddings(corpus) ==
    [i \in 1..Len(corpus) |-> Encode(corpus[i].question)]

\* the embeddings NLPChatbot.__init__ ends with (cache_embeddings = True)
InitialEmbeddings(corpus, cache) ==
    IF cache.exists THEN cache.data ELSE GenerateEmbeddings(corpus)

\* the cache file NLPChatbot.__init__ leaves behind
CacheAfterInit(corpus, cache) ==
    IF cache.exists THEN cache ELSE File(GenerateEmbeddings(corpus))

\* the chatbots of one mode constructed over the loader's list
Constructed(new_mode, new_threshold, new_weights, cache) ==
    /\ mode' = new_mode
    /\ threshold' = new_threshold
    /\ weights' = new_weights
    /\ keyword_index' = IF new_mode \in {"rule", "hybrid"}
                        THEN BuildKeywordIndex(faqs') ELSE EmptyIndex
    /\ faq_embeddings' = IF new_mode \in {"nlp", "hybrid"}
                         THEN InitialEmbeddings(faqs', cache)
                         ELSE <<>>
    /\ embedding_cache' = IF new_mode \in {"nlp", "hybrid"}
                          THEN CacheAfterInit(faqs', cache)
                          ELSE cache
    /\ conversation_history' = <<>>
    /\ last_response' = NewChatbot
    /\ UNCHANGED <<adding, web>>

\* the requests that can be inside chat() at a time
Requests == 1..MaxRequests

\* a request that has not reached chatbot.get_response
IdleRequest ==
    [pc |-> "idle", query |-> <<>>, outcome |-> Outcome(NoReply, <<>>),
     score |-> Zero]

\* no get_logs has returned since the last write of the logger
NotRead == [called |-> FALSE, limit |-> 0, entries |-> <<>>]

\* initialize_chatbot: logger = ChatLogger() over a log file that does not
\* exist yet, and no request in progress
FrontEndIdle ==
    /\ requests = [r \in Requests |-> IdleRequest]
    /\ log_file = NoFile
    /\ logs_read = NotRead

Init ==
    /\ faqs \in Corpora
    /\ mode \in Modes
    /\ threshold \in Thresholds
    /\ weights \in (IF mode = "hybrid" THEN WeightPairs ELSE {DefaultWeights})
    /\ keyword_index = IF mode \in {"rule", "hybrid"}
                       THEN BuildKeywordIndex(faqs) ELSE EmptyIndex
    /\ faq_embeddings = IF mode \in {"nlp", "hybrid"}
                        THEN InitialEmbeddings(faqs, NoFile)
                        ELSE <<>>
    /\ embedding_cache = IF mode \in {"nlp", "hybrid"}
                         THEN CacheAfterInit(faqs, NoFile)
                         ELSE NoFile
    /\ conversation_history = <<>>
    /\ last_response = NewChatbot
    /\ adding = <<>>
    /\ FrontEndIdle

\* the front end constructs its chatbot anew, with the arguments it was
\* started with, over the loader's list
Construct ==
    /\ UNCHANGED faqs
    /\ Constructed(mode, threshold, weights, embedding_cache)

-----------------------------------------------------------------------------
(* Queries *)

\* a get_response that puts its records in front of the history
RespondInFront(outcome) ==
    /\ conversation_history' = outcome.records \o conversation_history
    /\ last_response' = outcome.reply
    /\ UNCHANGED <<mode, faqs, threshold, weights, keyword_index,
                   faq_embeddings, embedding_cache, adding, web>>

\* a get_response that looks the query up in the history first and asks
\* the user of a repeated query for another question
RespondOnceOnly(outcome) ==
    LET repeated == \E i \in 1..Len(conversation_history) :
                        conversation_history[i].query = outcome.reply.query
    IN  /\ conversation_history' =
               IF repeated THEN conversation_history
               ELSE conversation_history \o outcome.records
        /\ last_response' =
               IF repeated
               THEN Reply("clarify", outcome.reply.query, 0, <<>>, <<>>)
               ELSE outcome.reply
        /\ UNCHANGED <<mode, faqs, threshold, weights, keyword_index,
                       faq_embeddings, embedding_cache, adding, web>>

Respond(outcome) ==
    /\ conversation_history' = conversation_history \o outcome.records
    /\ last_response' = outcome.reply
    /\ UNCHANGED <<mode, faqs, threshold, weights, keyword_index,
                   faq_embeddings, embedding_cache, adding, web>>

RuleGetResponse ==
    /\ mode = "rule"
    /\ Len(conversation_history) < MaxHistory
    /\ \E query \in QueryTexts, return_confidence \in BOOLEAN :
         Respond(RuleResponse(query, return_confidence))

\* RuleBasedChatbot.get_response for a query of several keywords
RuleGetResponseLong ==
    /\ mode = "rule"
    /\ Len(conversation_history) < MaxHistory
    /\ \E query \in LongQueryTexts, return_confidence \in BOOLEAN :
         Respond(RuleResponse(query, return_confidence))

NLPGetResponse ==
    /\ mode = "nlp"
    /\ Len(conversation_history) < MaxHistory
    /\ \E query \in QueryTexts, return_confidence \in BOOLEAN,
          encode_ok \in BOOLEAN :
         Respond(NLPResponse(query, return_confidence, encode_ok))

HybridGetResponse ==
    /\ mode = "hybrid"
    /\ Len(conversation_history) < MaxHistory
    /\ \E query \in QueryTexts, return_confidence \in BOOLEAN,
          encode_ok \in BOOLEAN :
         Respond(HybridResponse(query, return_confidence, encode_ok))

\* chatbot.clear_history(); HybridChatbot defines no such method
ClearHistory ==
    /\ IF mode = "hybrid"
       THEN /\ last_response' = Reply("raised", <<>>, 0, <<>>, <<>>)
            /\ UNCHANGED conversation_history
       ELSE /\ conversation_history' = <<>>
            /\ last_response' = NoReply
    /\ UNCHANGED <<mode, faqs, threshold, weights, keyword_index,
                   faq_embeddings, embedding_cache, adding, web>>

-----------------------------------------------------------------------------
(* Corpus additions *)

\* NLPChatbot.add_faq_dynamically; embed_ok says whether model.encode and
\* np.vstack return
AddFaqDynamically ==
    /\ mode \in {"nlp", "hybrid"}
    /\ Len(faqs) < MaxFaqs
    /\ \E question \in QuestionTexts, embed_ok \in BOOLEAN :
         /\ faqs' = Append(faqs, Entry(question, Len(faqs) + 1))
         /\ IF embed_ok
            THEN /\ faq_embeddings' =
                      Append(faq_embeddings, Encode(question))
                 /\ last_response' = NoReply
            ELSE /\ UNCHANGED faq_embeddings
                 /\ last_response' = Reply("raised", <<>>, 0, <<>>, <<>>)
    /\ UNCHANGED <<mode, threshold, weights, keyword_index,
                   embedding_cache, conversation_history, adding, web>>

\* DataLoader.add_faq on the list the chatbots were constructed over
LoaderAddFaq ==
    /\ Len(faqs) < MaxFaqs
    /\ \E question \in QuestionTexts :
         faqs' = Append(faqs, Entry(question, Len(faqs) + 1))
    /\ last_response' = NoReply
    /\ UNCHANGED <<mode, threshold, weights, keyword_index,
                   faq_embeddings, embedding_cache, conversation_history,
                   adding, web>>

Next ==
    \/ Construct
    \/ RuleGetResponse
    \/ NLPGetResponse
    \/ HybridGetResponse
    \/ ClearHistory
    \/ AddFaqDynamically
    \/ LoaderAddFaq

Spec == Init /\ [][Next]_vars

-----------------------------------------------------------------------------
(* The rule-based chatbot over corpora that may hold a question without a  *)
(* word character: the loaders put '' where a row has no question.        *)

ScoredQuestionTexts == QuestionTexts \cup {TextBangs}

ScoredCorpora ==
    UNION {{Corpus(qs) : qs \in [1..n -> ScoredQuestionTexts]} :
               n \in 0..MaxFaqs}

ScoringInit ==
    /\ faqs \in ScoredCorpora
    /\ mode = "rule"
    /\ threshold \in Thresholds
    /\ weights = DefaultWeights
    /\ keyword_index = BuildKeywordIndex(faqs)
    /\ faq_embeddings = <<>>
    /\ embedding_cache = NoFile
    /\ conversation_history = <<>>
    /\ last_response = NewChatbot
    /\ adding = <<>>
    /\ FrontEndIdle

ScoringNext == RuleGetResponse \/ ClearHistory

ScoringSpec == ScoringInit /\ [][ScoringNext]_vars

-----------------------------------------------------------------------------
(* A rule-based chatbot over a corpus longer than the table of a small set *)

\* one entry more than a new set has slots
LongCorpusLen == SetMinSize + 1

\* corpora of LongCorpusLen entries of which at most MaxFaqs have a keyword;
\* the first entry has none
LongCorpora ==
    {Corpus(qs) :
        qs \in {q \in [1..LongCorpusLen -> ScoredQuestionTexts] :
                   /\ q[1] = TextBangs
                   /\ Cardinality({i \in 1..LongCorpusLen :
                                      q[i] # TextBangs}) <= MaxFaqs}}

LongCorpusInit ==
    /\ faqs \in LongCorpora
    /\ mode = "rule"
    /\ threshold \in Thresholds
    /\ weights = DefaultWeights
    /\ keyword_index = BuildKeywordIndex(faqs)
    /\ faq_embeddings = <<>>
    /\ embedding_cache = NoFile
    /\ conversation_history = <<>>
    /\ last_response = NewChatbot
    /\ adding = <<>>
    /\ FrontEndIdle

LongCorpusNext == RuleGetResponse \/ ClearHistory

LongCorpusSpec == LongCorpusInit /\ [][LongCorpusNext]_vars

-----------------------------------------------------------------------------
(* A rule-based chatbot that is also asked queries of several keywords *)

LongQueryNext == RuleGetResponse \/ RuleGetResponseLong \/ ClearHistory

LongQuerySpec == ScoringInit /\ [][LongQueryNext]_vars

-----------------------------------------------------------------------------
(* Threads.  The code takes no lock, so a query of one thread can run      *)
(* between the two writes of an add_faq_dynamically of another thread.     *)

\* add_faq_dynamically up to self.faqs.append(new_faq)
BeginAddFaq ==
    /\ mode \in {"nlp", "hybrid"}
    /\ adding = <<>>
    /\ Len(faqs) < MaxFaqs
    /\ \E question \in QuestionTexts :
         /\ faqs' = Append(faqs, Entry(question, Len(faqs) + 1))
         /\ adding' = <<question>>
    /\ UNCHANGED <<mode, threshold, weights, keyword_index, faq_embeddings,
                   embedding_cache, conversation_history, last_response,
                   web>>

\* add_faq_dynamically from model.encode to the assignment of np.vstack
FinishAddFaq ==
    /\ adding # <<>>
    /\ \E embed_ok \in BOOLEAN :
         IF embed_ok
         THEN /\ faq_embeddings' =
                   Append(faq_embeddings, Encode(adding[1]))
              /\ last_response' = NoReply
         ELSE /\ UNCHANGED faq_embeddings
              /\ last_response' = Reply("raised", <<>>, 0, <<>>, <<>>)
    /\ adding' = <<>>
    /\ UNCHANGED <<mode, faqs, threshold, weights, keyword_index,
                   embedding_cache, conversation_history, web>>

ConcurrentInit == Init /\ mode \in {"nlp", "hybrid"}

ConcurrentNext ==
    \/ BeginAddFaq
    \/ FinishAddFaq
    \/ NLPGetResponse
    \/ HybridGetResponse

ConcurrentSpec == ConcurrentInit /\ [][ConcurrentNext]_vars

-----------------------------------------------------------------------------
(* Properties of the keyword index *)

\* a RuleBasedChatbot exists in the modes "rule" and "hybrid"
HasRuleBot == mode \in {"rule", "hybrid"}

\* the list positions registered under the keywords of a query
RegisteredUnder(query) ==
    UNION {Range(keyword_index[k]) :
               k \in KeywordsOf[query] \cap DOMAIN keyword_index}

\* entry i is registered under every keyword of its question and is among
\* the candidates of every query that has one of these keywords
EntryIsIndexed(i) ==
    \A k \in KeywordsOf[faqs[i].question] :
        /\ k \in DOMAIN keyword_index
        /\ i \in Range(keyword_index[k])
        /\ \A query \in QueryTexts :
               k \in KeywordsOf[query]
                   => i \in Range(GetCandidateFaqs(query))

IndexCoversCorpus == HasRuleBot => \A i \in 1..Len(faqs) : EntryIsIndexed(i)

\* C1: right after a RuleBasedChatbot is constructed (at start and at every
\* later construction) every entry of the corpus is registered under every
\* keyword of its question and is a candidate of every query that has one
\* of these keywords.
C1_IndexCoversCorpusAfterConstruction ==
    last_response.kind = "constructed" => IndexCoversCorpus

\* a chatbot over two entries that share a keyword, which a query has too
C1_Witness ==
    /\ HasRuleBot
    /\ Len(faqs) = 2
    /\ last_response.kind = "constructed"
    /\ \E k \in DOMAIN keyword_index, query \in QueryTexts :
           /\ Len(keyword_index[k]) = 2
           /\ k \in KeywordsOf[query]
           /\ Range(GetCandidateFaqs(query)) = {1, 2}
    /\ IndexCoversCorpus

\* C2: after any sequence of corpus additions every entry of the corpus,
\* the added ones included, is registered under every keyword of its
\* question and is a candidate of every query that shares a keyword.
C2_IndexCoversCorpusAfterAdditions == IndexCoversCorpus

\* C3: with a non-empty corpus a query none of whose keywords is a key of
\* the index (a query without keywords included) gets every list position
\* exactly once, and no query gets an empty candidate list.
C3_FallbackScansWholeCorpus ==
    (HasRuleBot /\ faqs # <<>>) =>
        \A query \in QueryTexts :
            LET candidates == GetCandidateFaqs(query)
            IN  /\ candidates # <<>>
                /\ (KeywordsOf[query] \cap DOMAIN keyword_index = {})
                       => /\ Len(candidates) = Len(faqs)
                          /\ Range(candidates) = 1..Len(faqs)

\* a query with keywords, none of them in the non-empty index of a corpus
\* of two entries
C3_Witness ==
    /\ HasRuleBot
    /\ Len(faqs) = 2
    /\ DOMAIN keyword_index # {}
    /\ \E query \in QueryTexts :
           /\ KeywordsOf[query] # {}
           /\ KeywordsOf[query] \cap DOMAIN keyword_index = {}
           /\ GetCandidateFaqs(query) = <<1, 2>>

\* C4: when a keyword of the query is a key of the index, the candidates
\* are exactly the positions registered under the keywords of the query,
\* each once, and each the position of an entry that shares a keyword with
\* the query.
C4_CandidatesAreTheRegisteredUnion ==
    HasRuleBot =>
        \A query \in QueryTexts :
            (KeywordsOf[query] \cap DOMAIN keyword_index # {}) =>
                LET candidates == GetCandidateFaqs(query)
                IN  /\ Range(candidates) = RegisteredUnder(query)
                    /\ Len(candidates) = Cardinality(Range(candidates))
                    /\ \A i \in Range(candidates) :
                           /\ i \in 1..Len(faqs)
                           /\ KeywordsOf[faqs[i].question]
                                  \cap KeywordsOf[query] # {}

\* a query whose keywords single out one entry of a corpus of two
C4_Witness ==
    /\ HasRuleBot
    /\ Len(faqs) = 2
    /\ \E query \in QueryTexts :
           /\ KeywordsOf[query] \cap DOMAIN keyword_index # {}
           /\ GetCandidateFaqs(query) = <<2>>

-----------------------------------------------------------------------------
(* Properties of the replies.  A reply stays in last_response only as long *)
(* as no other call is made, so the state it is checked against is the     *)
(* state the call ran in.                                                  *)

LastRecord == conversation_history[Len(conversation_history)]

\* the most recent call was HybridChatbot.get_response and it returned
HybridReturned ==
    mode = "hybrid"
        /\ last_response.kind \in {"answer", "no_answer", "fallback"}

\* the most recent call was the get_response of a single matcher and it
\* returned
SingleReturned ==
    mode \in {"rule", "nlp"}
        /\ last_response.kind \in {"answer", "fallback", "clarify"}

\* the top-1 lists HybridChatbot.get_response asks its two matchers for
RuleTop(query) == RuleFindBestMatch(query, 1)

NLPTop(query) == NLPFindBestMatch(query, 1, TRUE).value

\* the ranking the get_response of the single matcher works on
Ranking(query) ==
    IF mode = "rule" THEN RuleFindBestMatch(query, 3)
    ELSE NLPFindBestMatch(query, 3, TRUE).value

\* raw score times the weight of the method, the weight in tenths
Weighted(score, weight) == <<score[1] * weight, score[2] * 10>>

RAtLeast(x, y) == x[1] * y[2] >= y[1] * x[2]

\* C5: when both matchers have a top-1 candidate and the weighted scores
\* differ, the hybrid reply is the answer of the top-1 entry of the method
\* with the higher weighted score, and the score recorded in the history
\* and shown in the confidence note is the raw score of that method.
C5_HigherWeightedScoreWins ==
    HybridReturned =>
        LET rule_matches == RuleTop(last_response.query)
            nlp_matches == NLPTop(last_response.query)
        IN  (rule_matches # <<>> /\ nlp_matches # <<>>) =>
            LET rule_weighted == Weighted(rule_matches[1].score, weights[1])
                nlp_weighted == Weighted(nlp_matches[1].score, weights[2])
                rule_wins == RLess(nlp_weighted, rule_weighted)
                winner == IF rule_wins THEN rule_matches[1]
                          ELSE nlp_matches[1]
                method == IF rule_wins THEN "rule-based" ELSE "semantic"
            IN  (rule_wins \/ RLess(rule_weighted, nlp_weighted)) =>
                    /\ last_response.kind = "answer"
                    /\ last_response.answer = winner.faq.answer
                    /\ conversation_history # <<>>
                    /\ LastRecord.response = winner.faq.answer
                    /\ LastRecord.score = winner.score
                    /\ LastRecord.method = method
                    /\ last_response.confidence \in
                           {<<>>, <<FormatPercent(winner.score), method>>}

\* the rule-based method wins with a raw score that differs from its
\* weighted score, against another entry proposed by the semantic method,
\* and the confidence note is shown
C5_Witness ==
    /\ HybridReturned
    /\ last_response.kind = "answer"
    /\ last_response.confidence # <<>>
    /\ LET rule_matches == RuleTop(last_response.query)
           nlp_matches == NLPTop(last_response.query)
       IN  /\ rule_matches # <<>>
           /\ nlp_matches # <<>>
           /\ rule_matches[1].faq # nlp_matches[1].faq
           /\ RLess(Weighted(nlp_matches[1].score, weights[2]),
                    Weighted(rule_matches[1].score, weights[1]))
           /\ RLess(Weighted(rule_matches[1].score, weights[1]),
                    rule_matches[1].score)
           /\ LastRecord.score = rule_matches[1].score
           /\ LastRecord.method = "rule-based"

\* C6: whenever the raw score of the method the hybrid chatbot chose is
\* below the threshold, the reply is a fallback that lists alternative
\* questions and not the answer of the chosen entry.
C6_HybridAppliesThreshold ==
    HybridReturned =>
        LET rule_matches == RuleTop(last_response.query)
            nlp_matches == NLPTop(last_response.query)
            method == HybridPick(rule_matches, nlp_matches)
            chosen == IF method = "rule-based" THEN rule_matches[1]
                      ELSE nlp_matches[1]
        IN  (method # "none" /\ RLess(chosen.score, threshold)) =>
                /\ last_response.kind = "fallback"
                /\ last_response.alternatives # <<>>

LowConfidenceFallback ==
    /\ SingleReturned
    /\ last_response.kind = "fallback"
    /\ Ranking(last_response.query) # <<>>

C9_OnlyCandidateWins ==
    HybridReturned =>
        LET rule_matches == RuleTop(last_response.query)
            nlp_matches == NLPTop(last_response.query)
        IN  /\ (rule_matches # <<>> /\ nlp_matches = <<>>) =>
                   /\ last_response.kind = "answer"
                   /\ last_response.answer = rule_matches[1].faq.answer
                   /\ LastRecord.method = "rule-based"
            /\ (rule_matches = <<>> /\ nlp_matches # <<>>) =>
                   /\ last_response.kind = "answer"
                   /\ last_response.answer = nlp_matches[1].faq.answer
                   /\ LastRecord.method = "semantic"

\* C10: whenever both matchers have a top-1 candidate and the weighted
\* scores are equal, the hybrid chatbot picks the semantic method, in every
\* reachable state and so after every history and every earlier call.
C10_TiesPickSemantic ==
    HybridReturned =>
        LET rule_matches == RuleTop(last_response.query)
            nlp_matches == NLPTop(last_response.query)
        IN  (rule_matches # <<>> /\ nlp_matches # <<>>) =>
            LET rule_weighted == Weighted(rule_matches[1].score, weights[1])
                nlp_weighted == Weighted(nlp_matches[1].score, weights[2])
            IN  (~RLess(rule_weighted, nlp_weighted)
                     /\ ~RLess(nlp_weighted, rule_weighted)) =>
                    /\ last_response.kind = "answer"
                    /\ last_response.answer = nlp_matches[1].faq.answer
                    /\ conversation_history # <<>>
                    /\ LastRecord.method = "semantic"
                    /\ LastRecord.score = nlp_matches[1].score

\* a tie answered after an earlier call in which the rule-based method won
C10_Witness ==
    /\ HybridReturned
    /\ last_response.kind = "answer"
    /\ Len(conversation_history) = 2
    /\ conversation_history[1].method = "rule-based"
    /\ LastRecord.method = "semantic"
    /\ LET rule_matches == RuleTop(last_response.query)
           nlp_matches == NLPTop(last_response.query)
       IN  /\ rule_matches # <<>>
           /\ nlp_matches # <<>>
           /\ Weighted(rule_matches[1].score, weights[1])[1] *
                  Weighted(nlp_matches[1].score, weights[2])[2]
              = Weighted(nlp_matches[1].score, weights[2])[1] *
                  Weighted(rule_matches[1].score, weights[1])[2]

-----------------------------------------------------------------------------
(* Properties of the error paths *)

\* the most recent call was a get_response: only these replies carry a
\* query
AfterGetResponse == last_response.query # <<>>

\* C11: a HybridChatbot.get_response during which model.encode raises does
\* not raise itself (it answers from the rule-based top-1 alone), so no
\* hybrid get_response over embeddings that fit into the corpus ends in an
\* exception.
C11_HybridSurvivesEncoderFailure ==
    (mode = "hybrid" /\ AfterGetResponse
         /\ Len(faq_embeddings) <= Len(faqs)) =>
        last_response.kind # "raised"

\* C12: in every mode a query that is blank after _preprocess_text gets the
\* clarification prompt, and no record of such a query is in the history.
C12_BlankQueryGetsClarification ==
    /\ (AfterGetResponse /\ last_response.kind # "raised"
            /\ PreprocessText(last_response.query) = <<>>)
           => last_response.kind = "clarify"
    /\ \A n \in 1..Len(conversation_history) :
           PreprocessText(conversation_history[n].query) # <<>>

\* what get_response gives in the current mode when the embedding provider
\* works
ResponseNow(query, return_confidence) ==
    IF mode = "rule" THEN RuleResponse(query, return_confidence)
    ELSE IF mode = "nlp" THEN NLPResponse(query, return_confidence, TRUE)
    ELSE HybridResponse(query, return_confidence, TRUE)

-----------------------------------------------------------------------------
(* Properties of the embeddings *)

\* an NLPChatbot exists in the modes "nlp" and "hybrid"
HasNLPBot == mode \in {"nlp", "hybrid"}

\* there is one embedding per entry, and embedding i is the embedding of
\* the question of entry i
EmbeddingsFitCorpus ==
    /\ Len(faq_embeddings) = Len(faqs)
    /\ \A i \in 1..Len(faqs) : faq_embeddings[i] = Encode(faqs[i].question)

\* find_best_match returns for every query, and asked for as many matches
\* as there are entries it gives a score to every entry
RankingCoversCorpus ==
    \A query \in QueryTexts :
        LET found == NLPFindBestMatch(query, Len(faqs), TRUE)
        IN  /\ ~found.raised
            /\ {m.faq : m \in Range(found.value)} = Range(faqs)

\* C14: right after an NLPChatbot is constructed (with cache_embeddings =
\* True, at start and at every later construction) there is one embedding
\* per entry of the current corpus, embedding i is the embedding of the
\* question of entry i, and find_best_match scores every entry without an
\* index error.
C14_EmbeddingsFitCorpusAfterConstruction ==
    (HasNLPBot /\ last_response.kind = "constructed") =>
        EmbeddingsFitCorpus /\ RankingCoversCorpus

\* C15: every add_faq_dynamically that completes grows the corpus and the
\* embeddings by one each and leaves one embedding per entry, embedding i
\* the embedding of the question of entry i, so that find_best_match scores
\* the new entry and all older ones.
C15_CompletedAdditionKeepsEmbeddingsFit ==
    [][(AddFaqDynamically
            /\ Len(faq_embeddings') = Len(faq_embeddings) + 1) =>
           /\ Len(faqs') = Len(faqs) + 1
           /\ EmbeddingsFitCorpus'
           /\ RankingCoversCorpus']_vars

-----------------------------------------------------------------------------
(* Properties of concurrent additions and queries *)

\* C16: no query runs on a partially added entry: whenever a get_response
\* runs, no add_faq_dynamically is between its append to the corpus and its
\* extension of the embeddings, where the corpus is longer than the
\* embeddings of the entries added so far.
C16_QueriesSeeNoAdditionInFlight ==
    [][(NLPGetResponse \/ HybridGetResponse) =>
           ~(adding # <<>> /\ Len(faqs) # Len(faq_embeddings))]_vars

-----------------------------------------------------------------------------
(* Properties of the conversation history *)

\* the most recent call recorded: it answered, or it fell back on a
\* ranking that is not empty
Recorded ==
    \/ last_response.kind = "answer"
    \/ last_response.kind = "fallback" /\ last_response.alternatives # <<>>

\* the step leaves every record where it is and appends at most one
HistoryExtended ==
    /\ Len(conversation_history') \in
           {Len(conversation_history), Len(conversation_history) + 1}
    /\ SubSeq(conversation_history', 1, Len(conversation_history))
           = conversation_history

\* C17: the history is append-only between clears: no call but
\* clear_history and the constructors changes, removes or moves an earlier
\* record; a get_response that records appends exactly one record, the one
\* of its own query, at the end, and one that does not record leaves the
\* history as it is; so the records are in the order of the calls.
C17_HistoryIsAppendOnly ==
    [][/\ HistoryExtended \/ ClearHistory \/ Construct
       /\ AfterGetResponse' =>
              /\ HistoryExtended
              /\ IF Recorded'
                 THEN /\ Len(conversation_history')
                             = Len(conversation_history) + 1
                      /\ LastRecord'.query = last_response'.query
                 ELSE conversation_history' = conversation_history]_vars

\* two records of different queries, the later one of the query just
\* answered
C17_Witness ==
    /\ Len(conversation_history) = 2
    /\ AfterGetResponse
    /\ LastRecord.query = last_response.query
    /\ conversation_history[1].query # LastRecord.query

\* C18: clear_history() returns on the chatbot of every mode, and when it
\* has returned the history is empty.
C18_ClearHistoryEmptiesTheHistory ==
    [][ClearHistory =>
           /\ last_response'.kind # "raised"
           /\ conversation_history' = <<>>]_vars

-----------------------------------------------------------------------------
(* Properties of the scores *)

InUnitInterval(score) == RAtLeast(score, Zero) /\ RAtLeast(One, score)

\* the two texts have no character in common once normalized
NormalizedDisjoint(text1, text2) ==
    Range(PreprocessText(text1)) \cap Range(PreprocessText(text2)) = {}

\* C19: every combined score find_best_match gives to an entry lies in
\* [0, 1], and it is 0 when the query has no keyword and the normalized
\* query and the normalized question have no character in common.
C19_LexicalScoreInUnitInterval ==
    HasRuleBot =>
        \A query \in QueryTexts :
            \A m \in Range(RuleFindBestMatch(query, Len(faqs))) :
                /\ InUnitInterval(m.score)
                /\ (KeywordsOf[query] = {}
                        /\ NormalizedDisjoint(query, m.faq.question))
                       => m.score = Zero

\* C20: every score of a scored candidate lies in [0, 1]: every score
\* NLPChatbot.find_best_match gives to an entry, and every score recorded
\* in the history, those of the semantic method included.
C20_ScoresInUnitInterval ==
    /\ HasNLPBot =>
           \A query \in QueryTexts :
               \A m \in Range(NLPFindBestMatch(query, Len(faqs), TRUE).value) :
                   InUnitInterval(m.score)
    /\ \A n \in 1..Len(conversation_history) :
           InUnitInterval(conversation_history[n].score)

-----------------------------------------------------------------------------
(* Properties of the rankings *)

\* the values of top_k tried: 0 up to one more than the corpus holds
TopKs == 0..(Len(faqs) + 1)

\* the (position, score) pairs find_best_match scores for a query, of the
\* rule-based matcher and of the semantic matcher
RuleScored(query) ==
    {<<i, LexicalScore[query][faqs[i].question]>> :
         i \in Range(GetCandidateFaqs(query))}

NLPScored(query) ==
    {<<i, CosineSimilarity(Encode(query), faq_embeddings[i])>> :
         i \in 1..Len(faq_embeddings)}

\* result is a ranking of top_k of the scored pairs: as many as asked for
\* or all, each an entry with its own score, no entry twice, in
\* non-increasing order, and no pair left out scores higher than one in it
IsTopRanking(result, scored, top_k) ==
    /\ Len(result) = IF top_k < Cardinality(scored) THEN top_k
                     ELSE Cardinality(scored)
    /\ \A n \in 1..Len(result) :
           \E pair \in scored : /\ result[n].faq = faqs[pair[1]]
                                /\ result[n].score = pair[2]
    /\ \A n, k \in 1..Len(result) :
           n < k => /\ result[n].faq # result[k].faq
                    /\ RAtLeast(result[n].score, result[k].score)
    /\ \A pair \in scored :
           (\A n \in 1..Len(result) : result[n].faq # faqs[pair[1]])
               => \A n \in 1..Len(result) :
                      RAtLeast(result[n].score, pair[2])

\* C21: for every top_k >= 0 find_best_match of either matcher returns
\* exactly min(top_k, number of scored candidates) pairs, in non-increasing
\* order of score, and every returned score is at least the score of every
\* scored candidate that is not returned.
C21_RankingIsSortedAndCut ==
    /\ HasRuleBot =>
           \A query \in QueryTexts, top_k \in TopKs :
               IsTopRanking(RuleFindBestMatch(query, top_k),
                            RuleScored(query), top_k)
    /\ (HasNLPBot /\ Len(faq_embeddings) <= Len(faqs)) =>
           \A query \in QueryTexts, top_k \in TopKs :
               LET found == NLPFindBestMatch(query, top_k, TRUE)
               IN  /\ ~found.raised
                   /\ IsTopRanking(found.value, NLPScored(query), top_k)

\* the hybrid chatbot holds two entries that a query scores differently
\* with either matcher, so that top_k = 1 cuts the lower one off
C21_Witness ==
    /\ mode = "hybrid"
    /\ Len(faqs) = 2
    /\ Len(faq_embeddings) = 2
    /\ \E query \in QueryTexts :
           /\ Cardinality(RuleScored(query)) = 2
           /\ Cardinality({pair[2] : pair \in RuleScored(query)}) = 2
           /\ Cardinality({pair[2] : pair \in NLPScored(query)}) = 2
           /\ Len(RuleFindBestMatch(query, 1)) = 1
           /\ Len(NLPFindBestMatch(query, 1, TRUE).value) = 1
           /\ RuleFindBestMatch(query, 0) = <<>>


\* the position in the corpus of the entry of a match
PositionOf(match) == match.faq.answer

\* equal scores appear in corpus order in a ranking, and of two scored
\* candidates of equal score the one left out is the later one
TiesInCorpusOrder(result, scored) ==
    /\ \A i, j \in 1..Len(result) :
         (i < j /\ result[i].score = result[j].score)
             => PositionOf(result[i]) < PositionOf(result[j])
    /\ \A i \in 1..Len(result), pair \in scored :
         (/\ pair[2] = result[i].score
          /\ \A j \in 1..Len(result) : PositionOf(result[j]) # pair[1])
             => PositionOf(result[i]) < pair[1]

\* C22: in the lexical ranking and in the semantic ranking, candidates of
\* equal score appear in the order of the corpus, lower position first, so
\* which of two equal entries is the top match, and which one top_k cuts
\* off, depends only on their order in the corpus.
C22_TiesKeepCorpusOrder ==
    /\ HasRuleBot =>
         \A query \in QueryTexts, top_k \in TopKs :
             TiesInCorpusOrder(RuleFindBestMatch(query, top_k),
                               RuleScored(query))
    /\ (HasNLPBot /\ Len(faq_embeddings) <= Len(faqs)) =>
         \A query \in QueryTexts, top_k \in TopKs :
             TiesInCorpusOrder(NLPFindBestMatch(query, top_k, TRUE).value,
                               NLPScored(query))

-----------------------------------------------------------------------------
(* Properties of the scoring functions *)

\* the texts the chatbot holds: the questions of the corpus and the query
\* of the latest get_response
TextsInUse ==
    {faqs[i].question : i \in 1..Len(faqs)}
        \cup (IF AfterGetResponse THEN {last_response.query} ELSE {})

\* C23: _keyword_match_score is symmetric: for all texts A and B the score
\* of (A, B) equals the score of (B, A), also when one of them or both have
\* no keywords.
C23_KeywordMatchScoreIsSymmetric ==
    \A a \in Texts, b \in TextsInUse :
        KeywordMatchScore(a, b) = KeywordMatchScore(b, a)

\* a query with keywords has been scored against a corpus that holds an
\* entry without keywords and an entry that shares a keyword with it
C23_Witness ==
    /\ AfterGetResponse
    /\ KeywordsOf[last_response.query] # {}
    /\ \E i, j \in 1..Len(faqs) :
         /\ KeywordsOf[faqs[i].question] = {}
         /\ KeywordMatchScore(last_response.query, faqs[i].question) = Zero
         /\ KeywordMatchScore(faqs[i].question, faqs[i].question) = Zero
         /\ RGreater(KeywordMatchScore(last_response.query,
                                       faqs[j].question), Zero)
         /\ RLess(KeywordMatchScore(faqs[j].question,
                                    last_response.query), One)

-----------------------------------------------------------------------------
(* Properties of the conversation *)

\* get_response of the chatbot in use, computed from the query, the corpus,
\* the keyword index, the embeddings and the configuration
ResponseWith(query, return_confidence, encode_ok) ==
    IF mode = "rule" THEN RuleResponse(query, return_confidence)
    ELSE IF mode = "nlp" THEN NLPResponse(query, return_confidence, encode_ok)
    ELSE HybridResponse(query, return_confidence, encode_ok)

\* C24: every get_response is stateless: the reply and the record it appends
\* are those that the query, the corpus, the keyword index, the embeddings
\* and the configuration (mode, threshold, weights) determine, whatever the
\* conversation history holds and whichever queries came before.
C24_ResponseIgnoresTheHistory ==
    AfterGetResponse =>
        \E return_confidence \in BOOLEAN, encode_ok \in BOOLEAN :
            LET outcome == ResponseWith(last_response.query,
                                        return_confidence, encode_ok)
            IN  /\ last_response = outcome.reply
                /\ outcome.records # <<>> =>
                       /\ conversation_history # <<>>
                       /\ LastRecord = outcome.records[1]

\* a query has been answered after a different query and after the same
\* query, and its two records are equal
C24_Witness ==
    /\ AfterGetResponse
    /\ last_response.kind = "answer"
    /\ Len(conversation_history) = 2
    /\ conversation_history[1] = conversation_history[2]
    /\ LastRecord.query = last_response.query

-----------------------------------------------------------------------------
(* The logger *)

\* the fields of a log entry that the callers choose
LogEntry(query, response, score, method) ==
    [query |-> query, response |-> response, score |-> score,
     method |-> method]

\* the file after log_interaction: one more line, unless the write failed
Logged(file, entry, write_ok) ==
    IF write_ok THEN File(file.data \o <<entry>>) ELSE file

\* list[start:] of Python
SliceFrom(list, start) ==
    LET n == Len(list)
        first == IF start < 0
                 THEN (IF n + start < 0 THEN 0 ELSE n + start)
                 ELSE (IF start > n THEN n ELSE start)
    IN  SubSeq(list, first + 1, n)

\* ChatLogger.get_logs(limit)
GetLogsResult(limit) ==
    IF ~log_file.exists THEN <<>>
    ELSE SliceFrom(log_file.data, 0 - limit)

\* the limits a caller passes to get_logs
Limits == 0..(MaxLogs + 1)

\* ChatLogger.log_interaction from any of the front ends
LogInteraction ==
    /\ Len(log_file.data) < MaxLogs
    /\ \E query \in QueryTexts, score \in {Zero, One}, write_ok \in BOOLEAN :
         log_file' = Logged(log_file,
                            LogEntry(query, <<>>, score, "unknown"),
                            write_ok)
    /\ logs_read' = NotRead
    /\ UNCHANGED <<mode, faqs, threshold, weights, keyword_index,
                   faq_embeddings, embedding_cache, conversation_history,
                   last_response, adding, requests>>

\* ChatLogger.get_logs
GetLogs ==
    /\ \E limit \in Limits :
         logs_read' = [called |-> TRUE, limit |-> limit,
                       entries |-> GetLogsResult(limit)]
    /\ UNCHANGED <<mode, faqs, threshold, weights, keyword_index,
                   faq_embeddings, embedding_cache, conversation_history,
                   last_response, adding, requests, log_file>>

\* a logger next to a rule-based chatbot that is not used
LoggerInit ==
    /\ faqs = <<>>
    /\ mode = "rule"
    /\ threshold \in Thresholds
    /\ weights = DefaultWeights
    /\ keyword_index = EmptyIndex
    /\ faq_embeddings = <<>>
    /\ embedding_cache = NoFile
    /\ conversation_history = <<>>
    /\ last_response = NewChatbot
    /\ adding = <<>>
    /\ FrontEndIdle

LoggerNext == LogInteraction \/ GetLogs

LoggerSpec == LoggerInit /\ [][LoggerNext]_vars

\* the last k elements of a list, all of them if it has fewer
LastOf(list, k) ==
    SubSeq(list, IF k < Len(list) THEN Len(list) - k + 1 ELSE 1, Len(list))

\* C25: get_logs(limit) returns at most limit entries for every limit >= 0,
\* limit = 0 included: the most recent ones, in the order they were logged.
C25_GetLogsReturnsAtMostLimit ==
    logs_read.called =>
        /\ Len(logs_read.entries) <= logs_read.limit
        /\ logs_read.entries = LastOf(log_file.data, logs_read.limit)

\* C26: a get_response of RuleBasedChatbot or NLPChatbot that returns for a
\* non-blank query over a non-empty corpus appends exactly one record,
\* whether it answers or falls back for low confidence, so the length of
\* the history is the number of such calls since the last clear_history.
C26_EveryResolvedQueryIsRecorded ==
    [][(/\ AfterGetResponse'
        /\ mode \in {"rule", "nlp"}
        /\ faqs # <<>>
        /\ Strip(last_response'.query) # <<>>
        /\ last_response'.kind # "raised")
           => /\ last_response'.kind \in {"answer", "fallback"}
              /\ Len(conversation_history') = Len(conversation_history) + 1
              /\ conversation_history'[Len(conversation_history')].query
                     = last_response'.query]_vars

-----------------------------------------------------------------------------
(* The /api/chat requests of the web front end.  Flask serves each request  *)
(* in a thread of its own, chat() takes no lock, and all requests share the *)
(* one chatbot and its history.                                             *)

\* query = data['query'].strip() of the requests that chat() does not
\* reject as empty
ChatQueries == {Strip(text) : text \in QueryTexts} \ {<<>>}

\* chat() up to the return of chatbot.get_response(query); a request whose
\* get_response raised ends there
ChatGetResponse(r) ==
    /\ requests[r].pc = "idle"
    /\ Len(conversation_history) < MaxHistory
    /\ \E query \in ChatQueries, encode_ok \in BOOLEAN :
         requests' =
             [requests EXCEPT ![r] =
                 [pc |-> "responded",
                  query |-> query,
                  outcome |-> ResponseWith(query, FALSE, encode_ok),
                  score |-> Zero]]
    /\ conversation_history' =
           conversation_history \o requests'[r].outcome.records
    /\ last_response' = requests'[r].outcome.reply
    /\ UNCHANGED <<mode, faqs, threshold, weights, keyword_index,
                   faq_embeddings, embedding_cache, adding, log_file,
                   logs_read>>

\* the rest of chat(): score = history[-1].get('score', 0) if history else 0,
\* logger.log_interaction(query, response, score, method=mode) and the
\* return of the JSON reply
ChatLogScore(r) ==
    /\ requests[r].pc = "responded"
    /\ requests[r].outcome.reply.kind # "raised"
    /\ requests' =
           [requests EXCEPT
               ![r].pc = "done",
               ![r].score = IF conversation_history # <<>>
                            THEN LastRecord.score ELSE Zero]
    /\ \E write_ok \in BOOLEAN :
         log_file' = Logged(log_file,
                            LogEntry(requests[r].query,
                                     requests[r].outcome.reply,
                                     requests'[r].score, mode),
                            write_ok)
    /\ logs_read' = NotRead
    /\ UNCHANGED <<mode, faqs, threshold, weights, keyword_index,
                   faq_embeddings, embedding_cache, conversation_history,
                   last_response, adding>>

ChatNext ==
    \E r \in Requests :
        \/ ChatGetResponse(r)
        \/ ChatLogScore(r)

ChatSpec == Init /\ [][ChatNext]_vars

\* C27: under concurrent /api/chat requests on the shared chatbot, the score
\* a request returns and logs is the score of its own query: the read of
\* history[-1] after get_response never yields the record of another
\* request in flight.
C27_RequestReadsItsOwnScore ==
    \A r \in Requests :
        (requests[r].pc = "done" /\ requests[r].outcome.records # <<>>)
            => requests[r].score = requests[r].outcome.records[1].score

-----------------------------------------------------------------------------
(* Properties of the candidate lookup *)

\* the top match when every entry of the corpus is scored
FullScanTop(query) ==
    LET matches ==
            [i \in 1..Len(faqs) |->
                Match(faqs[i], LexicalScore[query][faqs[i].question])]
    IN  TopK(SortMatches(matches, <<>>), 1)

\* C28: pruning by the keyword index does not change the winner: the top
\* entry of RuleBasedChatbot.find_best_match and its score are those that
\* scoring every entry of the corpus gives.
C28_PruningKeepsTheWinner ==
    HasRuleBot =>
        \A query \in QueryTexts \cup LongQueryTexts :
            RuleFindBestMatch(query, 1) = FullScanTop(query)

-----------------------------------------------------------------------------
(* Properties of the additions *)

\* C29: an add_faq_dynamically in which model.encode raises leaves the
\* engine as it was: the corpus and the embeddings are those of before the
\* call, and they are still of equal length if they were.
C29_FailedAdditionChangesNothing ==
    [][(AddFaqDynamically /\ last_response'.kind = "raised") =>
           /\ faqs' = faqs
           /\ faq_embeddings' = faq_embeddings
           /\ (Len(faqs) = Len(faq_embeddings)
                   => Len(faqs') = Len(faq_embeddings'))]_vars

-----------------------------------------------------------------------------
(* Properties of the keywords *)

\* C30: every keyword that _extract_keywords returns consists of word
\* characters only: a '?' that normalization keeps never becomes part of a
\* keyword, so 'Reset pwd?' and 'reset pwd' yield the same keywords and an
\* entry with the former question is registered under them.
C30_KeywordsAreWords ==
    /\ \A text \in TextsInUse :
           \A keyword \in KeywordsOf[text] :
               \A i \in 1..Len(keyword) : keyword[i] \in WordChars
    /\ \A i \in 1..Len(faqs) :
           faqs[i].question = TextResetPwdQ =>
               /\ KeywordsOf[faqs[i].question] = KeywordsOf[TextResetPwd]
               /\ \A keyword \in KeywordsOf[TextResetPwd] :
                      /\ keyword \in DOMAIN keyword_index
                      /\ i \in Range(keyword_index[keyword])

=============================================================================
